---- MODULE Spec2Model ----
(***************************************************************************)
(* Model of get_articles_to_csv.py: the retrying transport (request_page)  *)
(* and the pagination loop of main.                                        *)
(*                                                                         *)
(* The specifications share the request_page actions:                      *)
(*   Spec       the whole program (main) under the default options, which  *)
(*              always calls request_page with its default max_retries;    *)
(*   SpecRP     one direct call of request_page with any max_retries;      *)
(*   SpecCfg    main under several sets of options and dates;              *)
(*   SpecBudget main with the requests of the whole run counted;           *)
(*   SpecTags   one call of normalize_label.                               *)
(* FairSpec is Spec with the scheduling of a sequential process: a step    *)
(* that can be taken is eventually taken.                                  *)
(***************************************************************************)
EXTENDS Integers, Sequences, FiniteSets, TLC

VARIABLES
    \* ---- main ----
    pc,             \* position of main: start, fetching, done, aborted, exit1, direct
    api_key,        \* args.api_key ("" when not configured)
    max_pages,      \* args.max_pages
    articles_count, \* args.articles_count
    page_delay,     \* args.page_delay
    page,           \* page counter
    total_rows,     \* running record count
    rows,           \* rows written to the output file, header first
    fetches,        \* history: number of request_page calls made by main
    page_sleeps,    \* history: number of inter-page sleeps
    common_total,   \* history: the totalResults shared by all pages processed so far
    \* ---- request_page ----
    rp_pc,          \* idle, post (about to send attempt), returned, raised
    max_retries,    \* argument max_retries
    attempt,        \* loop variable of the for loop
    backoff,        \* backoff
    resp,           \* outcome of the last session.post
    requests,       \* history: number of session.post calls in this call
    sleeps,         \* history: durations of time.sleep in this call, in order
    failed_with,    \* history: what the retried attempts of this call all received
    rp_error,       \* the exception request_page raised
    data,           \* the payload request_page returned (<<>> while none)
    \* ---- options and clock ----
    args,           \* the other fields of the argparse namespace
    today,          \* the current UTC date, as a day number
    \* ---- the call main makes ----
    payload,        \* payload of the current iteration (<<>> before the first)
    first_payload,  \* history: the payload built for the first iteration
    requested_pages,\* history: the page numbers passed to request_page, in order
    \* ---- the run seen from outside ----
    served,         \* history: the articles of the parsed 200 responses, in order
    count_requests, \* whether total_requests is kept
    total_requests, \* history: session.post calls of the whole run
    \* ---- normalize_label ----
    tag_pc,         \* ready, done
    tag_item,       \* argument item
    tag_lang,       \* lang of the enclosing extract_tags
    tag_out         \* the label returned

mainvars == <<pc, api_key, max_pages, articles_count, page_delay, page,
              total_rows, rows, fetches, page_sleeps, common_total>>
rpvars == <<rp_pc, max_retries, attempt, backoff, resp, requests, sleeps,
            failed_with, rp_error, data>>
cfgvars == <<args, today>>
callvars == <<payload, first_payload, requested_pages>>
tagvars == <<tag_pc, tag_item, tag_lang, tag_out>>
vars == <<mainvars, rpvars, cfgvars, callvars, served, count_requests,
          total_requests, tagvars>>

(***************************************************************************)
(* Bounds of the model.                                                    *)
(***************************************************************************)
\* the API holds at most this many non-empty pages; later pages are empty
MaxRealPages == 5
\* largest max_retries a direct call of request_page is given
MaxRetriesArg == 8
\* largest --max-pages value tried
MaxPagesArg == 3

(***************************************************************************)
(* Program constants.                                                      *)
(***************************************************************************)
DefaultMaxRetries == 5
InitialBackoff == 1
BackoffCap == 60
StatusOK == 200

RetryableStatuses == {429, 500, 502, 503, 504}
\* statuses that are neither 200 nor retryable
OtherStatuses == {201, 404}

Min(a, b) == IF a <= b THEN a ELSE b

RECURSIVE Pow2(_)
Pow2(n) == IF n <= 0 THEN 1 ELSE 2 * Pow2(n - 1)

(***************************************************************************)
(* Values exchanged with the API.                                          *)
(***************************************************************************)
\* totalResults of a response: absent, present but not an int, or an int
TRAbsent == [type |-> "absent", val |-> 0]
TRNonInt == [type |-> "nonint", val |-> 0]
TRInt(n) == [type |-> "int", val |-> n]
TotalResultsValues == {TRAbsent, TRNonInt} \cup {TRInt(n) : n \in {0, 7, 150, 437}}

(***************************************************************************)
(* Concept and category entries, extract_tags.                             *)
(* An entry is a string, a dict or something else. A dict has a label that *)
(* is absent, a string, a mapping (pairs <<language, value>> in insertion  *)
(* order) or something else, and a uri (<<>> when absent). None and ""     *)
(* are both falsy and are both written "".                                 *)
(***************************************************************************)
NoLabel == [kind |-> "absent", str |-> "", map |-> <<>>]
StrLabel(t) == [kind |-> "str", str |-> t, map |-> <<>>]
MapLabel(m) == [kind |-> "map", str |-> "", map |-> m]
OtherLabel == [kind |-> "other", str |-> "", map |-> <<>>]

StrItem(t) == [kind |-> "str", str |-> t, label |-> NoLabel, uri |-> <<>>]
DictItem(l, u) == [kind |-> "dict", str |-> "", label |-> l, uri |-> u]
OtherItem == [kind |-> "other", str |-> "", label |-> NoLabel, uri |-> <<>>]

\* label_container.get(k), "" when the key is absent
MapGet(m, k) ==
    IF \E i \in 1..Len(m) : m[i][1] = k
    THEN m[CHOOSE i \in 1..Len(m) : m[i][1] = k][2]
    ELSE ""

\* a or b
OrElse(a, b) == IF a # "" THEN a ELSE b

\* item.get("label") or {}
LabelContainer(l) ==
    IF l.kind = "absent" \/ (l.kind = "str" /\ l.str = "") \/ (l.kind = "map" /\ l.map = <<>>)
    THEN MapLabel(<<>>)
    ELSE l

\* variant: English is tried before the requested language
MappingLabel_engFirst(m, lang) ==
    LET label == OrElse(MapGet(m, "eng"), MapGet(m, lang))
    IN  IF label = "" /\ m # <<>> THEN m[1][2] ELSE label

\* the label found in a mapping: lang, then "eng", then the first value
MappingLabel(m, lang) ==
    LET label == OrElse(MapGet(m, lang), MapGet(m, "eng"))
    IN  IF label = "" /\ m # <<>> THEN m[1][2] ELSE label

NormalizeLabel(item, lang) ==
    IF item.kind = "str" THEN item.str
    ELSE IF item.kind = "dict" THEN
        LET lc == LabelContainer(item.label)
            label == IF lc.kind = "map" THEN MappingLabel(lc.map, lang) ELSE ""
        IN  IF label # "" THEN label
            ELSE IF item.uri # <<>> /\ item.uri[1] # "" THEN item.uri[1]
            ELSE IF item.label.kind = "str" /\ item.label.str # "" THEN item.label.str
            ELSE ""
    ELSE ""

\* the non-empty labels of a list of entries, in order
RECURSIVE LabelsOf(_, _)
LabelsOf(items, lang) ==
    IF items = <<>> THEN <<>>
    ELSE LET label == NormalizeLabel(Head(items), lang)
         IN  (IF label # "" THEN <<label>> ELSE <<>>) \o LabelsOf(Tail(items), lang)

ExtractTags(article, lang) ==
    LabelsOf(article.concepts, lang) \o LabelsOf(article.categories, lang)

\* "; ".join(tags)
RECURSIVE JoinTags(_)
JoinTags(tags) ==
    IF tags = <<>> THEN ""
    ELSE IF Len(tags) = 1 THEN tags[1]
    ELSE tags[1] \o "; " \o JoinTags(Tail(tags))

PoliticsItem == DictItem(MapLabel(<<<<"eng", "Politics">>, <<"deu", "Politik">>>>), <<>>)

\* the articles the API holds for page p; a field is <<>> when absent or null
Article1(p) ==
    [title |-> <<"t1">>, url |-> <<"u1-p" \o ToString(p)>>, outlet |-> <<"o1">>,
     body |-> <<"b1">>,
     concepts |-> <<StrItem("Economy")>>,
     categories |-> <<DictItem(StrLabel("Business"), <<>>)>>]
Article2(p) ==
    [title |-> <<>>, url |-> <<"u2-p" \o ToString(p)>>, outlet |-> <<>>,
     body |-> <<>>,
     concepts |-> <<DictItem(NoLabel, <<"uri:m">>)>>,
     categories |-> <<>>]
NonEmptyResults(p) == {<<Article1(p), Article2(p)>>}

\* a parsed payload: has_articles says whether data["articles"] is a non-empty
\* dict, has_results whether it carries a "results" key
NoArticlesPayload ==
    [has_articles |-> FALSE, has_results |-> FALSE, results |-> <<>>,
     totalResults |-> TRAbsent]
EmptyPayloads ==
    {NoArticlesPayload} \cup
    {[has_articles |-> TRUE, has_results |-> h, results |-> <<>>, totalResults |-> t] :
        h \in BOOLEAN, t \in TotalResultsValues}
FullPayloads(p) ==
    {[has_articles |-> TRUE, has_results |-> TRUE, results |-> r, totalResults |-> t] :
        r \in NonEmptyResults(p), t \in TotalResultsValues}

\* a response body: its text and, when the text is JSON, the value it parses to
TextBody(t) == [text |-> t, json |-> <<>>]
JsonBody(p) == [text |-> "json", json |-> <<p>>]
ErrorBodies == {TextBody(""), TextBody("busy")}
GarbageBody == TextBody("<html>")

NoResp == [kind |-> "none", status |-> 0, body |-> TextBody(""), exc |-> ""]
HttpResp(s, b) == [kind |-> "http", status |-> s, body |-> b, exc |-> ""]
TransportExc(e) == [kind |-> "exc", status |-> 0, body |-> TextBody(""), exc |-> e]
TransportErrors == {"ConnectionError", "Timeout"}

\* what one session.post for page p can produce
Outcomes(p) ==
    {TransportExc(e) : e \in TransportErrors}
    \cup {HttpResp(s, b) : s \in RetryableStatuses \cup OtherStatuses, b \in ErrorBodies}
    \cup {HttpResp(StatusOK, GarbageBody)}
    \cup {HttpResp(StatusOK, JsonBody(q)) : q \in EmptyPayloads}
    \cup {HttpResp(StatusOK, JsonBody(q)) :
            q \in (IF p <= MaxRealPages THEN FullPayloads(p) ELSE {})}

\* the outcomes for the pages a run asks for, computed once
OutcomesOfPage == [p \in 1..(MaxRealPages + 1) |-> Outcomes(p)]
PostOutcomes(p) == IF p \in DOMAIN OutcomesOfPage THEN OutcomesOfPage[p] ELSE Outcomes(p)

(***************************************************************************)
(* Exceptions.                                                             *)
(***************************************************************************)
NoError == [type |-> "none", msg |-> "", status |-> 0, text |-> ""]
HTTPError(s, t) == [type |-> "RuntimeError", msg |-> "HTTP", status |-> s, text |-> t]
InvalidJSON ==
    [type |-> "RuntimeError", msg |-> "Invalid JSON in API response", status |-> 0, text |-> ""]
MaxRetriesExceeded ==
    [type |-> "RuntimeError", msg |-> "Max retries exceeded", status |-> 0, text |-> ""]
TransportError(e) == [type |-> "RequestException", msg |-> e, status |-> 0, text |-> ""]

(***************************************************************************)
(* request_page                                                            *)
(***************************************************************************)
\* failed_with: NoFailure before the first retry, the status (TransportClass
\* for a transport error) every retried attempt received, or MixedFailures
NoFailure == -1
MixedFailures == -2
TransportClass == 0
FailClass(o) == IF o.kind = "exc" THEN TransportClass ELSE o.status
NextFailedWith(f, o) ==
    IF f = NoFailure \/ f = FailClass(o) THEN FailClass(o) ELSE MixedFailures

\* variant: every status from 400 up is retried
IsRetryable_from400(s) == s >= 400

IsRetryable(s) == s \in RetryableStatuses

\* variant: the final-attempt test is one attempt late
IsLastAttempt_late(a, mr) == a = mr

\* attempt == max_retries - 1
IsLastAttempt(a, mr) == a = mr - 1

\* variant: the backoff grows by one instead of doubling
NextBackoff_linear(b) == Min(BackoffCap, b + 1)

NextBackoff(b) == Min(BackoffCap, b * 2)

\* variant: attempt and backoff live on from the previous call
RP_Begin_carry(mr) ==
    /\ max_retries' = mr
    /\ backoff' = IF rp_pc = "idle" THEN InitialBackoff ELSE backoff
    /\ attempt' = IF rp_pc = "idle" THEN 0 ELSE attempt
    /\ requests' = 0
    /\ sleeps' = <<>>
    /\ failed_with' = NoFailure
    /\ resp' = NoResp
    /\ data' = <<>>
    /\ IF mr <= 0
       THEN rp_pc' = "raised" /\ rp_error' = MaxRetriesExceeded
       ELSE rp_pc' = "post" /\ rp_error' = NoError

\* entry of request_page up to the first session.post
RP_Begin(mr) ==
    /\ max_retries' = mr
    /\ backoff' = InitialBackoff
    /\ attempt' = 0
    /\ requests' = 0
    /\ sleeps' = <<>>
    /\ failed_with' = NoFailure
    /\ resp' = NoResp
    /\ data' = <<>>
    /\ IF mr <= 0
       THEN rp_pc' = "raised" /\ rp_error' = MaxRetriesExceeded
       ELSE rp_pc' = "post" /\ rp_error' = NoError

RP_Raise(e) ==
    /\ rp_pc' = "raised"
    /\ rp_error' = e
    /\ UNCHANGED <<attempt, backoff, sleeps, failed_with, data>>

RP_Return(p) ==
    /\ rp_pc' = "returned"
    /\ data' = <<p>>
    /\ UNCHANGED <<attempt, backoff, sleeps, failed_with, rp_error>>

\* variant: the backoff doubles without the cap
RP_SleepAndRetry_nocap(o) ==
    /\ sleeps' = Append(sleeps, backoff)
    /\ failed_with' = NextFailedWith(failed_with, o)
    /\ backoff' = backoff * 2
    /\ IF attempt + 1 < max_retries
       THEN attempt' = attempt + 1 /\ rp_pc' = "post" /\ rp_error' = NoError
       ELSE attempt' = attempt /\ rp_pc' = "raised" /\ rp_error' = MaxRetriesExceeded
    /\ UNCHANGED data

\* time.sleep(backoff); backoff = min(60.0, backoff * 2); continue
\* and the for loop's next step: the next attempt, or the raise after the loop
RP_SleepAndRetry(o) ==
    /\ sleeps' = Append(sleeps, backoff)
    /\ failed_with' = NextFailedWith(failed_with, o)
    /\ backoff' = NextBackoff(backoff)
    /\ IF attempt + 1 < max_retries
       THEN attempt' = attempt + 1 /\ rp_pc' = "post" /\ rp_error' = NoError
       ELSE attempt' = attempt /\ rp_pc' = "raised" /\ rp_error' = MaxRetriesExceeded
    /\ UNCHANGED data

\* variant: the final transport error is replaced by the generic error
OnTransportError_generic(o) ==
    IF IsLastAttempt(attempt, max_retries)
    THEN RP_Raise(MaxRetriesExceeded)
    ELSE RP_SleepAndRetry(o)

OnTransportError(o) ==
    IF IsLastAttempt(attempt, max_retries)
    THEN RP_Raise(TransportError(o.exc))
    ELSE RP_SleepAndRetry(o)

\* variant: an unparseable 200 body is retried like a transient failure
OnOk_retryInvalid(o) ==
    IF o.body.json # <<>>
    THEN RP_Return(o.body.json[1])
    ELSE IF IsLastAttempt(attempt, max_retries)
         THEN RP_Raise(InvalidJSON)
         ELSE RP_SleepAndRetry(o)

OnOk(o) ==
    IF o.body.json # <<>>
    THEN RP_Return(o.body.json[1])
    ELSE RP_Raise(InvalidJSON)

\* variant: no final-attempt check, the last attempt sleeps too
OnRetryable_alwaysSleeps(o) == RP_SleepAndRetry(o)

OnRetryable(o) ==
    IF IsLastAttempt(attempt, max_retries)
    THEN RP_Raise(HTTPError(o.status, o.body.text))
    ELSE RP_SleepAndRetry(o)

OnOther(o) == RP_Raise(HTTPError(o.status, o.body.text))

\* the articles a response delivers
ServedBy(o) ==
    IF /\ o.kind = "http" /\ o.status = 200 /\ o.body.json # <<>>
       /\ o.body.json[1].has_articles /\ o.body.json[1].has_results
    THEN o.body.json[1].results
    ELSE <<>>

\* one iteration of the for loop
RP_Attempt ==
    /\ rp_pc = "post"
    /\ \E o \in PostOutcomes(page) :
        /\ resp' = o
        /\ requests' = requests + 1
        /\ served' = served \o ServedBy(o)
        /\ IF o.kind = "exc" THEN OnTransportError(o)
           ELSE IF o.status = StatusOK THEN OnOk(o)
           ELSE IF IsRetryable(o.status) THEN OnRetryable(o)
           ELSE OnOther(o)
    /\ total_requests' = IF count_requests THEN total_requests + 1 ELSE total_requests
    /\ UNCHANGED <<max_retries, mainvars, cfgvars, callvars, count_requests, tagvars>>

\* a direct call of request_page
RetriesArgs == (-1)..MaxRetriesArg

RP_Call ==
    /\ rp_pc = "idle"
    /\ pc = "direct"
    /\ \E mr \in RetriesArgs : RP_Begin(mr)
    /\ UNCHANGED <<mainvars, cfgvars, callvars, served, count_requests,
                   total_requests, tagvars>>

(***************************************************************************)
(* main                                                                    *)
(***************************************************************************)
Max(a, b) == IF a >= b THEN a ELSE b

\* date.isoformat() of day number n
IsoFormat(n) == "D" \o ToString(n)

\* compute_dates: a date argument is <<>> when None or "", else <<string>>
ComputeDates(days, date_start, date_end, now) ==
    IF date_start # <<>> /\ date_end # <<>>
    THEN <<date_start, date_end>>
    ELSE <<<<IsoFormat(now - Max(days, 1))>>, <<IsoFormat(now)>>>>

\* s.strip() on the pieces used here
Strip(t) ==
    CASE t = " a" -> "a"
      [] t = "b " -> "b"
      [] t = " " -> ""
      [] OTHER -> t

\* [s.strip() for s in value.split(",") if s.strip()], value given by its pieces
RECURSIVE SplitList(_)
SplitList(pieces) ==
    IF pieces = <<>> THEN <<>>
    ELSE (IF Strip(Head(pieces)) # "" THEN <<Strip(Head(pieces))>> ELSE <<>>)
         \o SplitList(Tail(pieces))

\* variant: the start date moves with the page
BuildPayload_pageDates(a, count, p) ==
    [resultType |-> "articles",
     articlesPage |-> p,
     articlesCount |-> count,
     articlesSortBy |-> "date",
     articlesSortByAsc |-> FALSE,
     articleBodyLen |-> a.body_len,
     dateStart |-> IF p = 1 THEN a.date_start ELSE a.date_end,
     dateEnd |-> a.date_end,
     includeArticleTitle |-> TRUE,
     includeArticleBasicInfo |-> TRUE,
     includeArticleBody |-> TRUE,
     includeArticleConcepts |-> TRUE,
     includeArticleCategories |-> TRUE,
     includeSourceTitle |-> TRUE,
     includeConceptLabel |-> TRUE,
     conceptLang |-> a.lang,
     isDuplicateFilter |-> IF a.skip_duplicates THEN "skipDuplicates" ELSE "keepAll",
     lang |-> IF a.lang # "" THEN <<a.lang>> ELSE <<>>,
     keyword |-> a.keyword,
     query |-> a.query,
     sourceUri |-> IF a.source_uri # <<>> THEN <<SplitList(a.source_uri[1])>> ELSE <<>>,
     categoryUri |-> IF a.category_uri # <<>> THEN <<SplitList(a.category_uri[1])>> ELSE <<>>]

\* build_payload: an optional key that is not set is <<>>
BuildPayload(a, count, p) ==
    [resultType |-> "articles",
     articlesPage |-> p,
     articlesCount |-> count,
     articlesSortBy |-> "date",
     articlesSortByAsc |-> FALSE,
     articleBodyLen |-> a.body_len,
     dateStart |-> a.date_start,
     dateEnd |-> a.date_end,
     includeArticleTitle |-> TRUE,
     includeArticleBasicInfo |-> TRUE,
     includeArticleBody |-> TRUE,
     includeArticleConcepts |-> TRUE,
     includeArticleCategories |-> TRUE,
     includeSourceTitle |-> TRUE,
     includeConceptLabel |-> TRUE,
     conceptLang |-> a.lang,
     isDuplicateFilter |-> IF a.skip_duplicates THEN "skipDuplicates" ELSE "keepAll",
     lang |-> IF a.lang # "" THEN <<a.lang>> ELSE <<>>,
     keyword |-> a.keyword,
     query |-> a.query,
     sourceUri |-> IF a.source_uri # <<>> THEN <<SplitList(a.source_uri[1])>> ELSE <<>>,
     categoryUri |-> IF a.category_uri # <<>> THEN <<SplitList(a.category_uri[1])>> ELSE <<>>]

\* args after args.date_start, args.date_end = compute_dates(...)
ResolveDates(a, now) ==
    LET d == ComputeDates(a.days, a.date_start, a.date_end, now)
    IN  [a EXCEPT !.date_start = d[1], !.date_end = d[2]]

Header == <<"Headline", "Link URL", "Outlet", "Text", "Tags/keywords">>

\* article.get(key) or ""
OrEmpty(f) == IF f = <<>> THEN "" ELSE f[1]

Row(a, lang) ==
    <<OrEmpty(a.title), OrEmpty(a.url), OrEmpty(a.outlet), OrEmpty(a.body),
      JoinTags(ExtractTags(a, lang))>>

\* variant: the rows of a page are written last article first
RowsOf_reversed(results, lang) ==
    [i \in 1..Len(results) |-> Row(results[Len(results) + 1 - i], lang)]

RowsOf(results, lang) == [i \in 1..Len(results) |-> Row(results[i], lang)]

\* results = (data.get("articles") or {}).get("results") or []
Results(d) == IF d.has_articles /\ d.has_results THEN d.results ELSE <<>>

\* total_results = articles_section.get("totalResults")
TotalResultsOf(d) == IF d.has_articles THEN d.totalResults ELSE TRAbsent

\* math.ceil(t / s) for s > 0
Ceil(t, s) == -((-t) \div s)

\* total_pages: <<>> stands for None
TotalPages(tr, size) ==
    IF tr.type = "int" /\ size > 0 THEN <<Ceil(tr.val, size)>> ELSE <<>>

\* variant: the cap is compared with > instead of >=
StopByMaxPages_gt(p, mp) == mp # 0 /\ p > mp

\* if args.max_pages and page >= args.max_pages
StopByMaxPages(p, mp) == mp # 0 /\ p >= mp

\* variant: the page count is compared with > instead of >=
StopByTotalPages_gt(p, tp) == tp # <<>> /\ tp[1] # 0 /\ p > tp[1]

\* if total_pages and page >= total_pages
StopByTotalPages(p, tp) == tp # <<>> /\ tp[1] # 0 /\ p >= tp[1]

\* variant: a page number is skipped
NextPage_skip(p) == p + 2

\* page += 1
NextPage(p) == p + 1

\* variant: the count grows by one per page
CountRows_perPage(n, results) == n + 1

\* total_rows += 1 for each row written
CountRows(n, results) == n + Len(results)

NextCommonTotal(c, tr) ==
    IF c = [type |-> "none", val |-> 0] THEN tr
    ELSE IF c = tr THEN c
    ELSE [type |-> "mixed", val |-> 0]

\* variant: the key is checked after the dates are resolved and the file opened
M_Start_lateCheck ==
    /\ pc = "start"
    /\ args' = ResolveDates(args, today)
    /\ rows' = <<Header>>
    /\ IF api_key = ""
       THEN /\ pc' = "exit1"
            /\ UNCHANGED <<fetches, rpvars, callvars>>
       ELSE /\ pc' = "fetching"
            /\ payload' = <<BuildPayload(args', articles_count, 1)>>
            /\ first_payload' = payload'
            /\ requested_pages' = <<payload'[1].articlesPage>>
            /\ fetches' = 1
            /\ RP_Begin(DefaultMaxRetries)
    /\ page' = 1
    /\ total_rows' = 0
    /\ UNCHANGED <<api_key, max_pages, articles_count, page_delay, page_sleeps,
                   common_total, today, served, count_requests, total_requests,
                   tagvars>>

\* from the start of main to the first call of request_page
M_Start ==
    /\ pc = "start"
    /\ IF api_key = ""
       THEN /\ pc' = "exit1"
            /\ UNCHANGED <<rows, fetches, rpvars, args, callvars>>
       ELSE /\ pc' = "fetching"
            /\ args' = ResolveDates(args, today)
            /\ rows' = <<Header>>
            /\ payload' = <<BuildPayload(args', articles_count, 1)>>
            /\ first_payload' = payload'
            /\ requested_pages' = <<payload'[1].articlesPage>>
            /\ fetches' = 1
            /\ RP_Begin(DefaultMaxRetries)
    /\ page' = 1
    /\ total_rows' = 0
    /\ UNCHANGED <<api_key, max_pages, articles_count, page_delay, page_sleeps,
                   common_total, today, served, count_requests, total_requests,
                   tagvars>>

\* variant: continue instead of break, the same page is requested again
OnEmptyPage_continue ==
    /\ pc' = "fetching"
    /\ fetches' = fetches + 1
    /\ requested_pages' = Append(requested_pages, page)
    /\ RP_Begin(DefaultMaxRetries)
    /\ UNCHANGED <<page, total_rows, rows, page_sleeps, payload, first_payload>>

\* variant: the empty page neither ends the loop nor advances it
OnEmptyPage_stay ==
    UNCHANGED <<pc, page, total_rows, rows, fetches, page_sleeps, rpvars, callvars>>

\* if not results: break
OnEmptyPage ==
    /\ pc' = "done"
    /\ UNCHANGED <<page, total_rows, rows, fetches, page_sleeps, rpvars, callvars>>

\* the rest of an iteration for a non-empty page, up to the next call
OnFullPage(d) ==
    LET results == Results(d)
        tp == TotalPages(TotalResultsOf(d), articles_count)
    IN  /\ rows' = rows \o RowsOf(results, args.lang)
        /\ total_rows' = CountRows(total_rows, results)
        /\ IF StopByMaxPages(page, max_pages) \/ StopByTotalPages(page, tp)
           THEN /\ pc' = "done"
                /\ UNCHANGED <<page, fetches, page_sleeps, rpvars, callvars>>
           ELSE /\ pc' = "fetching"
                /\ page' = NextPage(page)
                /\ page_sleeps' = page_sleeps + (IF page_delay > 0 THEN 1 ELSE 0)
                /\ payload' = <<BuildPayload(args, articles_count, page')>>
                /\ requested_pages' = Append(requested_pages, payload'[1].articlesPage)
                /\ fetches' = fetches + 1
                /\ RP_Begin(DefaultMaxRetries)
                /\ UNCHANGED first_payload

\* one iteration of the while loop, from the return of request_page
M_Iterate ==
    /\ pc = "fetching"
    /\ rp_pc = "returned"
    /\ common_total' = NextCommonTotal(common_total, TotalResultsOf(data[1]))
    /\ IF Results(data[1]) = <<>> THEN OnEmptyPage ELSE OnFullPage(data[1])
    /\ UNCHANGED <<api_key, max_pages, articles_count, page_delay, cfgvars, served,
                   count_requests, total_requests, tagvars>>

\* variant: the failed page is skipped and the loop goes on
M_Abort_skip ==
    /\ pc = "fetching"
    /\ rp_pc = "raised"
    /\ page' = page + 1
    /\ payload' = <<BuildPayload(args, articles_count, page')>>
    /\ requested_pages' = Append(requested_pages, page')
    /\ fetches' = fetches + 1
    /\ RP_Begin(DefaultMaxRetries)
    /\ UNCHANGED <<pc, api_key, max_pages, articles_count, page_delay,
                   total_rows, rows, page_sleeps, common_total, first_payload,
                   cfgvars, served, count_requests, total_requests, tagvars>>

\* an exception of request_page leaves main
M_Abort ==
    /\ pc = "fetching"
    /\ rp_pc = "raised"
    /\ pc' = "aborted"
    /\ UNCHANGED <<api_key, max_pages, articles_count, page_delay, page,
                   total_rows, rows, fetches, page_sleeps, common_total, rpvars,
                   cfgvars, callvars, served, count_requests, total_requests,
                   tagvars>>

(***************************************************************************)
(* normalize_label called on one entry                                     *)
(***************************************************************************)
TG_Normalize ==
    /\ tag_pc = "ready"
    /\ tag_out' = NormalizeLabel(tag_item, tag_lang)
    /\ tag_pc' = "done"
    /\ UNCHANGED <<tag_item, tag_lang, mainvars, rpvars, cfgvars, callvars, served,
                   count_requests, total_requests>>

(***************************************************************************)
(* Specifications                                                          *)
(***************************************************************************)
ApiKeys == {"", "key"}
MaxPagesArgs == 0..MaxPagesArg
ArticlesCounts == {0, 3, 100}
PageDelays == {0, 1}

RPIdle ==
    /\ rp_pc = "idle"
    /\ max_retries = DefaultMaxRetries
    /\ attempt = 0
    /\ backoff = InitialBackoff
    /\ resp = NoResp
    /\ requests = 0
    /\ sleeps = <<>>
    /\ failed_with = NoFailure
    /\ rp_error = NoError
    /\ data = <<>>

\* the defaults of parse_args
DefaultArgs ==
    [days |-> 60, date_start |-> <<>>, date_end |-> <<>>, lang |-> "eng",
     keyword |-> <<>>, query |-> <<>>, source_uri |-> <<>>, category_uri |-> <<>>,
     body_len |-> -1, skip_duplicates |-> TRUE]

\* other command lines: both dates given (in any order), one date only with
\* days = 0, a negative days
ArgsProfiles ==
    { DefaultArgs,
      [days |-> 60, date_start |-> <<"D9">>, date_end |-> <<"D5">>, lang |-> "fra",
       keyword |-> <<"k">>, query |-> <<"q">>, source_uri |-> <<<<" a", "", "b ">>>>,
       category_uri |-> <<>>, body_len |-> 200, skip_duplicates |-> FALSE],
      [days |-> 0, date_start |-> <<"D5">>, date_end |-> <<>>, lang |-> "",
       keyword |-> <<>>, query |-> <<>>, source_uri |-> <<>>,
       category_uri |-> <<<<" ">>>>, body_len |-> -1, skip_duplicates |-> TRUE],
      [DefaultArgs EXCEPT !.days = -3, !.lang = "deu"] }

Today0 == 20
Todays == {Today0, Today0 + 1}

CallIdle ==
    /\ payload = <<>>
    /\ first_payload = <<>>
    /\ requested_pages = <<>>

AuditIdle ==
    /\ served = <<>>
    /\ total_requests = 0

TagIdle ==
    /\ tag_pc = "idle"
    /\ tag_item = OtherItem
    /\ tag_lang = "eng"
    /\ tag_out = ""

MainIdle ==
    /\ page = 1
    /\ total_rows = 0
    /\ rows = <<>>
    /\ fetches = 0
    /\ page_sleeps = 0
    /\ common_total = [type |-> "none", val |-> 0]

Init ==
    /\ pc = "start"
    /\ api_key \in ApiKeys
    /\ max_pages \in MaxPagesArgs
    /\ articles_count \in ArticlesCounts
    /\ page_delay \in PageDelays
    /\ args = DefaultArgs
    /\ today = Today0
    /\ count_requests = FALSE
    /\ MainIdle
    /\ RPIdle
    /\ CallIdle
    /\ AuditIdle
    /\ TagIdle

Next == M_Start \/ RP_Attempt \/ M_Iterate \/ M_Abort

Spec == Init /\ [][Next]_vars

FairSpec == Spec /\ WF_vars(Next)

InitRP ==
    /\ pc = "direct"
    /\ api_key = "key"
    /\ max_pages = 0
    /\ articles_count = 100
    /\ page_delay = 0
    /\ args = DefaultArgs
    /\ today = Today0
    /\ count_requests = TRUE
    /\ MainIdle
    /\ RPIdle
    /\ CallIdle
    /\ AuditIdle
    /\ TagIdle

NextRP == RP_Call \/ RP_Attempt

SpecRP == InitRP /\ [][NextRP]_vars

\* main under several command lines and dates, with a page cap
InitCfg ==
    /\ pc = "start"
    /\ api_key \in ApiKeys
    /\ max_pages \in {2, 3}
    /\ articles_count = 100
    /\ page_delay = 0
    /\ args \in ArgsProfiles
    /\ today \in Todays
    /\ count_requests = FALSE
    /\ MainIdle
    /\ RPIdle
    /\ CallIdle
    /\ AuditIdle
    /\ TagIdle

SpecCfg == InitCfg /\ [][Next]_vars

\* main with the requests of the run counted
InitBudget ==
    /\ pc = "start"
    /\ api_key = "key"
    /\ max_pages \in {0, 2}
    /\ articles_count = 100
    /\ page_delay = 0
    /\ args = DefaultArgs
    /\ today = Today0
    /\ count_requests = TRUE
    /\ MainIdle
    /\ RPIdle
    /\ CallIdle
    /\ AuditIdle
    /\ TagIdle

SpecBudget == InitBudget /\ [][Next]_vars

\* one call of normalize_label
TagLangs == {"eng", "deu", "fra"}
TagValue(k) ==
    CASE k = "eng" -> "Politics"
      [] k = "deu" -> "Politik"
      [] OTHER -> "Politique"
\* mappings of at most two languages, each value the label or ""
TagMaps ==
    {<<>>}
    \cup {<<<<k, v>>>> : k \in TagLangs, v \in {"", "x"}}
    \cup {<<<<k1, IF e1 THEN "" ELSE TagValue(k1)>>, <<k2, IF e2 THEN "" ELSE TagValue(k2)>>>> :
            k1 \in TagLangs, k2 \in TagLangs, e1 \in BOOLEAN, e2 \in BOOLEAN}
TagLabels ==
    {NoLabel, StrLabel(""), StrLabel("Plain"), OtherLabel}
    \cup {MapLabel(m) : m \in {t \in TagMaps : Len(t) < 2 \/ t[1][1] # t[2][1]}}
TagItems ==
    {StrItem("Climate"), StrItem(""), OtherItem}
    \cup {DictItem(l, u) : l \in TagLabels, u \in {<<>>, <<"">>, <<"uri:x">>}}
    \cup {PoliticsItem}

InitTags ==
    /\ pc = "direct"
    /\ api_key = "key"
    /\ max_pages = 0
    /\ articles_count = 100
    /\ page_delay = 0
    /\ args = DefaultArgs
    /\ today = Today0
    /\ count_requests = FALSE
    /\ MainIdle
    /\ RPIdle
    /\ CallIdle
    /\ AuditIdle
    /\ tag_pc = "ready"
    /\ tag_item \in TagItems
    /\ tag_lang \in TagLangs
    /\ tag_out = ""

NextTags == TG_Normalize

SpecTags == InitTags /\ [][NextTags]_vars

(***************************************************************************)
(* Properties                                                              *)
(***************************************************************************)
ClaimRetryable == {429, 500, 502, 503, 504}

\* the sleeps of k retries: min(60, 2^(i-1)) for i = 1..k
ExpectedSleeps(k) == [i \in 1..k |-> Min(60, Pow2(i - 1))]

\* ceil(t / s) for t >= 0 and s > 0, by its defining inequalities
CeilDiv(t, s) == CHOOSE n \in 0..t : n * s >= t /\ (n - 1) * s < t

Terminated == pc \in {"done", "aborted", "exit1"}

PageReturned == pc = "fetching" /\ rp_pc = "returned"

\* C1: a call that returns after k transient failures has sent k + 1 requests
\* and slept exactly k times, the i-th sleep lasting min(60, 2^(i-1)), with no
\* sleep after the successful attempt, and returns the parsed body; with
\* max_retries = 5 and four 503 responses before the 200 the sleeps are
\* 1, 2, 4, 8.
C1_BackoffSchedule ==
    rp_pc = "returned" =>
        /\ requests <= max_retries
        /\ Len(sleeps) = requests - 1
        /\ sleeps = ExpectedSleeps(requests - 1)
        /\ resp.kind = "http" /\ resp.status = 200
        /\ data = resp.body.json /\ data # <<>>
        /\ (max_retries = 5 /\ requests = 5 /\ failed_with = 503
                => sleeps = <<1, 2, 4, 8>>)

C1_Witness ==
    /\ rp_pc = "returned"
    /\ max_retries = 5
    /\ requests = 5
    /\ failed_with = 503
    /\ sleeps = <<1, 2, 4, 8>>

\* C2: a retryable status (429, 500, 502, 503, 504) is retried while attempts
\* remain and never ends the call before the last attempt; on the last attempt
\* the call fails after exactly max_retries requests and max_retries - 1
\* sleeps with an error carrying the status and body of that last response.
C2_RetriesExhausted ==
    (resp.kind = "http" /\ resp.status \in ClaimRetryable) =>
        IF requests < max_retries
        THEN rp_pc = "post" /\ Len(sleeps) = requests
        ELSE /\ rp_pc = "raised"
             /\ requests = max_retries
             /\ Len(sleeps) = max_retries - 1
             /\ rp_error = HTTPError(resp.status, resp.body.text)

C2_Witness ==
    /\ rp_pc = "raised"
    /\ max_retries = 5
    /\ requests = 5
    /\ failed_with = 503
    /\ resp = HttpResp(503, TextBody("busy"))
    /\ rp_error = HTTPError(503, "busy")

\* C3: a status other than 200, 429, 500, 502, 503, 504 fails the call on the
\* attempt that received it: no sleep and no request follow that response,
\* whatever the attempt number.
C3_OtherStatusFatal ==
    (resp.kind = "http" /\ resp.status \notin ({200} \cup ClaimRetryable)) =>
        /\ rp_pc = "raised"
        /\ rp_error = HTTPError(resp.status, resp.body.text)
        /\ attempt = requests - 1
        /\ Len(sleeps) = requests - 1

C3_Witness ==
    /\ rp_pc = "raised"
    /\ max_retries = 5
    /\ requests = 3
    /\ resp.kind = "http" /\ resp.status = 404
    /\ rp_error = HTTPError(404, "busy")

\* C4: HTTP 200 with an unparseable body fails the call at once with the
\* malformed-response error: no sleep and no request follow, even when
\* attempts remain.
C4_MalformedFatal ==
    (resp.kind = "http" /\ resp.status = 200 /\ resp.body.json = <<>>) =>
        /\ rp_pc = "raised"
        /\ rp_error = InvalidJSON
        /\ attempt = requests - 1
        /\ Len(sleeps) = requests - 1
        /\ data = <<>>

C4_Witness ==
    /\ rp_pc = "raised"
    /\ max_retries = 5
    /\ requests = 2
    /\ resp = HttpResp(200, GarbageBody)
    /\ rp_error = InvalidJSON

\* C5: an attempt that fails at the transport level sleeps the current backoff
\* and goes to the next attempt when attempt < max_retries - 1; on the last
\* attempt the call raises that same transport error without sleeping.
C5_TransportStep ==
    (rp_pc = "post" /\ requests' = requests + 1 /\ resp'.kind = "exc") =>
        IF attempt < max_retries - 1
        THEN /\ sleeps' = Append(sleeps, backoff)
             /\ attempt' = attempt + 1
             /\ rp_pc' = "post"
             /\ rp_error' = NoError
        ELSE /\ rp_pc' = "raised"
             /\ rp_error' = TransportError(resp'.exc)
             /\ sleeps' = sleeps

C5_TransportFailure == [][C5_TransportStep]_vars

C5_Witness ==
    /\ rp_pc = "raised"
    /\ max_retries = 5
    /\ requests = 5
    /\ failed_with = TransportClass
    /\ resp = TransportExc("Timeout")
    /\ rp_error = TransportError("Timeout")
    /\ sleeps = <<1, 2, 4, 8>>

\* C6: a fetched page with an empty or absent results list ends the loop in
\* the step that handles it: no row is written, no inter-page sleep, no
\* further fetch or request, no error; on page 1 the output is the header row
\* alone. This holds for every page, max_pages and totalResults.
C6_EmptyPageStep ==
    (PageReturned /\
        (~data[1].has_articles \/ ~data[1].has_results \/ data[1].results = <<>>)) =>
        /\ pc' = "done"
        /\ rows' = rows
        /\ total_rows' = total_rows
        /\ page_sleeps' = page_sleeps
        /\ fetches' = fetches
        /\ requests' = requests
        /\ page' = page
        /\ rp_pc' = "returned" /\ rp_error' = NoError
        /\ (page = 1 => rows' = <<Header>>)

C6_EmptyPageHalts == [][C6_EmptyPageStep]_vars

C6_Witness ==
    /\ pc = "done"
    /\ fetches = 1
    /\ page = 1
    /\ rows = <<Header>>
    /\ total_rows = 0
    /\ max_pages = 0
    /\ data[1].results = <<>>
    /\ data[1].totalResults = TRInt(437)
    /\ page_sleeps = 0

\* C7: with max_pages = M > 0 the number of page fetches never exceeds M, and
\* a run that ends on a non-empty page whose totalResults implies more than M
\* pages has made exactly M fetches (M = 2 with 437 results of 100 per page:
\* 2 fetches).
C7_MaxPagesCap ==
    max_pages > 0 =>
        /\ fetches <= max_pages
        /\ (/\ pc = "done"
            /\ data # <<>>
            /\ data[1].has_articles /\ data[1].has_results
            /\ data[1].results # <<>>
            /\ data[1].totalResults.type = "int"
            /\ articles_count > 0
            /\ CeilDiv(data[1].totalResults.val, articles_count) > max_pages)
                => fetches = max_pages

C7_Witness ==
    /\ pc = "done"
    /\ max_pages = 2
    /\ fetches = 2
    /\ articles_count = 100
    /\ data # <<>>
    /\ data[1].results # <<>>
    /\ data[1].totalResults = TRInt(437)
    /\ common_total = TRInt(437)

\* C8: with max_pages = 0, page size S > 0 and every response so far carrying
\* the same integer totalResults T > 0, the computed page count is ceil(T / S)
\* and at most ceil(T / S) fetches have been made; ceil(437 / 100) = 5.
C8_TotalPagesCap ==
    /\ CeilDiv(437, 100) = 5
    /\ (/\ PageReturned
        /\ articles_count > 0
        /\ TotalResultsOf(data[1]).type = "int"
        /\ TotalResultsOf(data[1]).val > 0)
            => TotalPages(TotalResultsOf(data[1]), articles_count)
                 = <<CeilDiv(TotalResultsOf(data[1]).val, articles_count)>>
    /\ (/\ max_pages = 0
        /\ articles_count > 0
        /\ common_total.type = "int"
        /\ common_total.val > 0)
            => fetches <= CeilDiv(common_total.val, articles_count)

C8_Witness ==
    /\ pc = "done"
    /\ max_pages = 0
    /\ articles_count = 100
    /\ common_total = TRInt(437)
    /\ fetches = 5
    /\ data[1].results # <<>>

\* C9 as claimed: after a non-empty page p whose response carries an integer
\* totalResults T >= 0, with page size S > 0, p >= ceil(T / S) ends the loop:
\* page p + 1 is not requested.
C9_StopStep ==
    (/\ PageReturned
     /\ data[1].has_articles /\ data[1].has_results
     /\ data[1].results # <<>>
     /\ data[1].totalResults.type = "int"
     /\ data[1].totalResults.val >= 0
     /\ articles_count > 0
     /\ page >= CeilDiv(data[1].totalResults.val, articles_count)) =>
        /\ pc' = "done"
        /\ fetches' = fetches
        /\ page' = page

C9_TotalPagesReachedStops == [][C9_StopStep]_vars

\* C10: under fair scheduling every run terminates: the run ends normally, is
\* aborted by an error of a fetch, or never starts.
C10_Termination == <>Terminated

C10_Witness ==
    /\ pc = "done"
    /\ max_pages = 0
    /\ common_total.type = "mixed"
    /\ fetches > 2
    /\ Results(data[1]) = <<>>

\* the rows of the sink after the header, as <<title, url>> of the article
WrittenIds == [i \in 1..(Len(rows) - 1) |-> <<rows[i + 1][1], rows[i + 1][2]>>]

\* <<title, url>> of the first n articles the API delivered
ServedIds(n) ==
    [i \in 1..n |->
        <<IF served[i].title = <<>> THEN "" ELSE served[i].title[1],
          IF served[i].url = <<>> THEN "" ELSE served[i].url[1]>>]

\* <<title, url>> of every article the API delivered
ServedAll == ServedIds(Len(served))

\* the articles of a returned page that main has not handled yet
Pending == IF pc = "fetching" /\ rp_pc = "returned" THEN Len(ServedBy(resp)) ELSE 0

\* C11: a fatal error of the fetch of page k aborts the run in the next step:
\* no row of page k is written while its fetch runs or when it fails, no later
\* page is requested, and the rows of pages 1..k-1 stay in the output as they
\* were.
C11_AbortStep ==
    /\ (pc = "fetching" /\ rp_pc = "raised") =>
            /\ pc' = "aborted"
            /\ rp_error \in {InvalidJSON, TransportError(resp.exc),
                              HTTPError(resp.status, resp.body.text)}
            /\ rows' = rows
            /\ total_rows' = total_rows
            /\ fetches' = fetches
            /\ requested_pages' = requested_pages
            /\ requests' = requests
            /\ page' = page
    /\ (pc = "fetching" /\ rp_pc = "post") => rows' = rows
    /\ pc' = "aborted" =>
            /\ Len(requested_pages') = page'
            /\ rows' = <<<<"Headline", "Link URL", "Outlet", "Text", "Tags/keywords">>>>
                          \o SubSeq(rows', 2, Len(rows'))
            /\ WrittenIds' = ServedAll'

C11_FatalErrorAborts == [][C11_AbortStep]_vars

C11_Witness ==
    /\ pc = "aborted"
    /\ page = 3
    /\ fetches = 3
    /\ rp_error = HTTPError(503, "busy")
    /\ requests = 5
    /\ Len(rows) = 5
    /\ total_rows = 4

\* C12: without an API key the run does not start: the process exits with no
\* HTTP request sent, the dates not resolved, and the output file neither
\* opened nor given its header.
C12_NoKeyNoRun ==
    api_key = "" =>
        /\ pc \in {"start", "exit1"}
        /\ rp_pc = "idle"
        /\ requests = 0
        /\ fetches = 0
        /\ requested_pages = <<>>
        /\ payload = <<>>
        /\ served = <<>>
        /\ args.date_start = <<>> /\ args.date_end = <<>>
        /\ rows = <<>>

C12_Witness ==
    /\ api_key = ""
    /\ pc = "exit1"
    /\ rows = <<>>
    /\ requests = 0
    /\ args.date_start = <<>>

\* C13: the sink holds the header row and then one row per article of the
\* pages handled so far, in page order and in the order of the response, with
\* none missing, repeated or moved; while a request for the next page is being
\* made every article delivered so far is already written.
C13_SequentialOrder ==
    pc \in {"fetching", "done", "aborted"} =>
        /\ rows[1] = <<"Headline", "Link URL", "Outlet", "Text", "Tags/keywords">>
        /\ Len(rows) - 1 = Len(served) - Pending
        /\ WrittenIds = ServedIds(Len(served) - Pending)
        /\ (rp_pc = "post" => Len(rows) - 1 = Len(served))
        /\ \A i, j \in 1..Len(served) : served[i].url = served[j].url => i = j

C13_Witness ==
    /\ pc = "fetching"
    /\ rp_pc = "post"
    /\ page = 3
    /\ requests = 0
    /\ Len(rows) = 5
    /\ rows[2][2] = "u1-p1" /\ rows[3][2] = "u2-p1"
    /\ rows[4][2] = "u1-p2" /\ rows[5][2] = "u2-p2"

\* C14: the page numbers passed to request_page in a run are 1, 2, ..., n in
\* this order, one call per number, and the counter is the last of them.
C14_PageNumbers ==
    /\ Len(requested_pages) = fetches
    /\ requested_pages = [i \in 1..fetches |-> i]
    /\ (pc \in {"fetching", "done", "aborted"} => page = fetches)
    /\ (pc \in {"start", "exit1"} => fetches = 0)

C14_Witness ==
    /\ pc = "done"
    /\ requested_pages = <<1, 2, 3>>
    /\ page = 3
    /\ max_pages = 0

\* C15: the date range is resolved once, at the start, and the configuration
\* is not changed afterwards; every request of a run carries the resolved
\* dateStart and dateEnd and equals the first request of the run in every
\* field but articlesPage; building the request again from the configuration
\* after the step gives the request that was sent.
C15_Step ==
    /\ pc # "start" => args' = args /\ articles_count' = articles_count
    /\ (pc = "start" /\ pc' = "fetching") =>
            /\ [args' EXCEPT !.date_start = args.date_start,
                             !.date_end = args.date_end] = args
            /\ IF args.date_start # <<>> /\ args.date_end # <<>>
               THEN args'.date_start = args.date_start /\ args'.date_end = args.date_end
               ELSE /\ args'.date_end = <<"D" \o ToString(today)>>
                    /\ args'.date_start =
                         <<"D" \o ToString(today - (IF args.days > 1 THEN args.days ELSE 1))>>
    /\ payload' # <<>> =>
            /\ first_payload'[1].articlesPage = 1
            /\ payload'[1].articlesPage = page'
            /\ [payload'[1] EXCEPT !.articlesPage = 1] = first_payload'[1]
            /\ payload'[1].dateStart = args'.date_start
            /\ payload'[1].dateEnd = args'.date_end
            /\ payload'[1].dateStart # <<>> /\ payload'[1].dateEnd # <<>>
            /\ BuildPayload(args', articles_count', page') = payload'[1]

C15_RequestsDifferOnlyInPage == [][C15_Step]_vars

C15_Witness ==
    /\ pc = "fetching"
    /\ page = 3
    /\ args.days = 0
    /\ today = 20
    /\ first_payload[1].articlesPage = 1
    /\ first_payload[1].dateStart = <<"D19">>
    /\ payload[1].articlesPage = 3
    /\ payload[1].dateStart = <<"D19">>
    /\ payload[1].dateEnd = <<"D20">>

\* C16: total_rows is the number of data rows in the sink: 0 before the first
\* row, one more for each row written, and at normal termination the number of
\* articles the fetched pages delivered.
C16_RowCount ==
    /\ (pc \in {"start", "exit1"} => total_rows = 0 /\ rows = <<>>)
    /\ (pc \in {"fetching", "done", "aborted"} => total_rows = Len(rows) - 1)
    /\ (pc = "done" => total_rows = Len(served))

C16_Witness ==
    /\ pc = "done"
    /\ fetches = 3
    /\ Results(resp.body.json[1]) = <<>>
    /\ Len(served) = 4
    /\ total_rows = 4
    /\ Len(rows) = 5

\* C17: inside request_page the backoff is always between 1 and 60; it is 1
\* before the first retry and after k retries it is min(60, 2^k); the i-th
\* sleep lasts min(60, 2^(i-1)) and no sleep is longer than 60.
C17_BackoffRange ==
    rp_pc # "idle" =>
        /\ 1 <= backoff /\ backoff <= 60
        /\ (sleeps = <<>> => backoff = 1)
        /\ backoff = (IF Pow2(Len(sleeps)) < 60 THEN Pow2(Len(sleeps)) ELSE 60)
        /\ \A i \in 1..Len(sleeps) :
              /\ sleeps[i] = (IF Pow2(i - 1) < 60 THEN Pow2(i - 1) ELSE 60)
              /\ sleeps[i] <= 60

C17_Witness ==
    /\ rp_pc = "post"
    /\ max_retries = 8
    /\ sleeps = <<1, 2, 4, 8, 16, 32, 60>>
    /\ backoff = 60

\* the label the stated resolution order gives for an entry; usable means
\* not empty
ExpectedLabel(item, lang) ==
    IF item.kind = "str" THEN item.str
    ELSE IF item.kind # "dict" THEN ""
    ELSE LET m == IF item.label.kind = "map" THEN item.label.map ELSE <<>>
             Has(k) == \E i \in 1..Len(m) : m[i][1] = k /\ m[i][2] # ""
             Val(k) == m[CHOOSE i \in 1..Len(m) : m[i][1] = k /\ m[i][2] # ""][2]
             fromMap == IF Has(lang) THEN Val(lang)
                        ELSE IF Has("eng") THEN Val("eng")
                        ELSE IF m # <<>> THEN m[1][2]
                        ELSE ""
         IN  IF fromMap # "" THEN fromMap
             ELSE IF item.uri # <<>> /\ item.uri[1] # "" THEN item.uri[1]
             ELSE IF item.label.kind = "str" /\ item.label.str # "" THEN item.label.str
             ELSE ""

\* C18: normalize_label follows the resolution order, first match wins: a
\* string entry as it is; else the mapping's value for the preferred language,
\* else for "eng", else its first value; else the uri; else a label that is a
\* string; else "". The entry with labels eng Politics and deu Politik gives
\* Politics for the language fra.
C18_ResolutionOrder ==
    tag_pc = "done" =>
        /\ tag_out = ExpectedLabel(tag_item, tag_lang)
        /\ (/\ tag_item.kind = "dict"
            /\ tag_item.label.kind = "map"
            /\ tag_item.label.map = <<<<"eng", "Politics">>, <<"deu", "Politik">>>>
            /\ tag_lang = "fra") => tag_out = "Politics"

C18_Witness ==
    /\ tag_pc = "done"
    /\ tag_item.kind = "dict"
    /\ tag_item.label.kind = "map"
    /\ tag_item.label.map = <<<<"eng", "Politics">>, <<"deu", "Politik">>>>
    /\ tag_item.uri = <<>>
    /\ tag_lang = "fra"
    /\ tag_out = "Politics"

\* the call of request_page has made its last allowed attempt
FinalAttemptMade == max_retries >= 1 /\ requests = max_retries

\* the three ends of the call the claim lists
EndsAsListed ==
    \/ rp_pc = "returned" /\ data # <<>>
    \/ rp_pc = "raised" /\ resp.kind = "exc" /\ rp_error = TransportError(resp.exc)
    \/ /\ rp_pc = "raised" /\ resp.kind = "http"
       /\ rp_error = HTTPError(resp.status, resp.body.text)

\* a 200 response whose body is not JSON ends the call with its own error
EndsMalformed ==
    /\ rp_pc = "raised"
    /\ resp.kind = "http" /\ resp.status = 200 /\ resp.body.json = <<>>
    /\ rp_error = InvalidJSON

\* the generic error, never for max_retries >= 1, and with no request sent
GenericOnlyWithoutBudget ==
    /\ (max_retries >= 1 => rp_error # MaxRetriesExceeded)
    /\ (rp_error = MaxRetriesExceeded => max_retries <= 0 /\ requests = 0)
    /\ (rp_pc # "idle" /\ max_retries <= 0 =>
            rp_pc = "raised" /\ rp_error = MaxRetriesExceeded /\ requests = 0)

C20_PerPageBudget ==
    /\ (rp_pc = "post" /\ requests = 0 =>
            attempt = 0 /\ backoff = 1 /\ sleeps = <<>>)
    /\ (rp_pc = "post" => attempt = requests /\ requests < max_retries)
    /\ (rp_pc # "idle" => requests <= max_retries)
    /\ (pc \in {"fetching", "done", "aborted"} => max_retries = 5)
    /\ total_requests <= fetches * 5

C20_Witness ==
    /\ pc = "fetching"
    /\ fetches = 2
    /\ page = 2
    /\ requests = 5
    /\ rp_pc = "returned"
    /\ sleeps = <<1, 2, 4, 8>>
    /\ total_requests = 10

====
